---- MODULE Spec2Model ----
(***************************************************************************)
(* Model of cscs-keygen: the vault credential helpers (BWHelper/OPHelper), *)
(* the credential validator, the signing client, the key pair store and    *)
(* the two CLI commands `fetch` and `add`.                                 *)
(*                                                                         *)
(* Text that the program inspects character by character (credential       *)
(* fields, fingerprints, agent listings) is a sequence of one-character    *)
(* strings; opaque text (key material, item names, tokens) is a TLA+       *)
(* string, with "" the empty string.                                       *)
(***************************************************************************)
EXTENDS Integers, Sequences, FiniteSets, TLC

VARIABLES
    cmd,          \* "fetch" | "add": the sub-command of this invocation
    dry_run,      \* state.dry_run (--dry-run)
    force,        \* fetch's --force option
    backend,      \* "bw" | "op"
    item_name,    \* CredsHelper.item_name
    platform,     \* sys.platform
    env,          \* the process environment: variable -> value, Unset when absent
    now,          \* wall clock, in hours
    disk,         \* the two key files: [present, content, mode, ctime]
    mem,          \* the two Key objects: [content, c_time, fingerprint]
    unlocked,     \* CredsHelper._is_unlocked
    credentials,  \* CredsHelper.__credentials, a mapping with a subset of the three keys
    returned,     \* the mapping the last fetch_credentials() call returned, or NoValue
    private_key,  \* fetch's local private_key
    public_key,   \* fetch's local public_key
    disk0,        \* history: the two key files when the process started
    response,     \* history: the reply the signing request got
    fsdone,       \* history: what the filesystem did to keys.save()
    vault_out,    \* history: what the vault programs did in the last fetch_credentials()
    runs,         \* number of invocations started so far
    ran,          \* history: the last direct run_command call, {} or {[proc, ..., result]}
    agent,        \* the text `ssh-add -l` prints
    agent0,       \* history: the text `ssh-add -l` printed when the process started
    loads,        \* history: how many times the agent has accepted the key
    pc,           \* position inside the running command
    exit_code,    \* process exit status, meaningful when pc = "exit"
    raised,       \* what ended the command or the last helper call
    errlog,       \* what has been logged at error level
    trace,        \* history: the external effects performed so far, in order
    calls         \* number of helper calls made (helper specification)

vars == << cmd, dry_run, force, backend, item_name, platform, env, now, disk, mem,
           unlocked, credentials, returned, private_key, public_key, disk0, response, fsdone,
           vault_out, runs, ran, agent, agent0, loads, pc, exit_code, raised, errlog, trace,
           calls >>

-----------------------------------------------------------------------------
(* Bounds of the model *)

\* helper specification: at most this many unlock()/fetch_credentials() calls
MaxCalls == 3
\* ages of a key file range over 0..MaxAge hours
MaxAge == 26
\* repeated invocations: the command is run at most this many times in a row
MaxRuns == 2

-----------------------------------------------------------------------------
(* Values *)

Unset == "<unset>"          \* os.getenv(...) is None
NoValue == "<none>"         \* Python None for opaque text
KeyTypes == {"private", "public"}
Fields == <<"username", "password", "totp">>

LOWER == {"a","b","c","d","e","f","g","h","i","j","k","l","m",
          "n","o","p","q","r","s","t","u","v","w","x","y","z"}
DIGIT == {"0","1","2","3","4","5","6","7","8","9"}
WS == {" ", "\t", "\n", "\r"}

EmptyCreds == [k \in {} |-> <<>>]

\* d[k] = v added to mapping d
Put(d, k, v) == [x \in (DOMAIN d) \cup {k} |-> IF x = k THEN v ELSE d[x]]

\* dict.get(k, default)
Get(d, k, default) == IF k \in DOMAIN d THEN d[k] ELSE default

-----------------------------------------------------------------------------
(* Text helpers *)

\* str.strip(): drop leading and trailing whitespace
RECURSIVE LStrip(_)
LStrip(s) == IF s # <<>> /\ Head(s) \in WS THEN LStrip(Tail(s)) ELSE s

RECURSIVE RStrip(_)
RStrip(s) == IF s # <<>> /\ s[Len(s)] \in WS THEN RStrip(SubSeq(s, 1, Len(s) - 1)) ELSE s

Strip(s) == RStrip(LStrip(s))

\* every character of s is in class
AllIn(s, class) == \A i \in 1..Len(s) : s[i] \in class

\* re.match(r"^class{lo,hi}$", s): `$` matches at the end of the string and
\* also just before a newline that ends the string
ReMatch(s, class, lo, hi) ==
    LET body == IF s # <<>> /\ s[Len(s)] = "\n" THEN SubSeq(s, 1, Len(s) - 1) ELSE s
    IN  \/ (Len(s) >= lo /\ Len(s) <= hi /\ AllIn(s, class))
        \/ (Len(body) >= lo /\ Len(body) <= hi /\ AllIn(body, class))

\* `needle in haystack` for str
IsSubstring(needle, haystack) ==
    \E i \in 0..(Len(haystack) - Len(needle)) :
        SubSeq(haystack, i + 1, i + Len(needle)) = needle

-----------------------------------------------------------------------------
(* Credential validator *)

USER_MIN == 2
USER_MAX == 15
TOTP_LEN == 6
USER_CLASS == LOWER \cup DIGIT \cup {"_", "-"}

\* CredsHelper.are_credentials_valid
are_credentials_valid(creds) ==
    IF DOMAIN creds = {} THEN FALSE
    ELSE /\ ReMatch(Get(creds, "username", <<>>), USER_CLASS, USER_MIN, USER_MAX)
         /\ "password" \in DOMAIN creds /\ creds["password"] # <<>>
         /\ ReMatch(Get(creds, "totp", <<>>), DIGIT, TOTP_LEN, TOTP_LEN)

\* [value, raised] of a validator call
Verdict(value, exc) == [value |-> value, raised |-> exc]

\* CredsHelper.are_credentials_valid of the flat module layout
\* (src/credentials_helper.py): .get(key) without a default hands None to
\* re.match when the key is absent, and re.match(pattern, None) raises
\* TypeError; the three elements are evaluated in order before all() runs
are_credentials_valid_flat(creds) ==
    IF DOMAIN creds = {} THEN Verdict(FALSE, "")
    ELSE IF "username" \notin DOMAIN creds \/ "totp" \notin DOMAIN creds
    THEN Verdict(FALSE, "TypeError")
    ELSE Verdict(/\ ReMatch(creds["username"], USER_CLASS, USER_MIN, USER_MAX)
                 /\ "password" \in DOMAIN creds /\ creds["password"] # <<>>
                 /\ ReMatch(creds["totp"], DIGIT, TOTP_LEN, TOTP_LEN),
                 "")

-----------------------------------------------------------------------------
(* Command runner *)

\* What a spawned program does: proc = [found, rc, stdout].
\* The result of run_command: [kind, out, code] with kind "return" (out is the
\* captured stdout when capture, code the exit status otherwise) or the
\* exception that leaves the call.
Result(kind, out, code) == [kind |-> kind, out |-> out, code |-> code]

\* run_command(cmd, capture=, check=, text=) of cscs_keygen/utils.py.  On a
\* non-zero exit under check the handler formats err.stderr, which is None when
\* nothing was captured: without text it calls None.decode() and the call is
\* left by AttributeError in place of SystemExit(returncode).
run_command(proc, capture, check, text) ==
    IF ~proc.found THEN Result("FileNotFoundError", <<>>, 1)
    ELSE IF check /\ proc.rc # 0
    THEN \* CalledProcessError: err.stderr is None unless captured
         IF ~text /\ ~capture THEN Result("AttributeError", <<>>, 1)
         ELSE Result("SystemExit", <<>>, proc.rc)
    ELSE IF capture THEN Result("return", proc.stdout, 0)
    ELSE Result("return", <<>>, proc.rc)

-----------------------------------------------------------------------------
(* Vault helpers.  Each method is an operator from the helper's state and   *)
(* the outcome of the programs it spawns to                                 *)
(*   [unlocked, credentials, ret, events, raised, code]                     *)
(* ret holds the returned mapping (empty when the call raises), events the *)
(* environment reads and commands it performed, raised the exception that  *)
(* left the call ("" when it returned) and code the exit status that       *)
(* exception gives the process.                                            *)

Outcome(u, creds, ret, events, exc, code) ==
    [unlocked |-> u, credentials |-> creds, ret |-> ret,
     events |-> events, raised |-> exc, code |-> code]

backend_token(b) == IF b = "bw" THEN "BW_SESSION" ELSE "OP_SERVICE_ACCOUNT_TOKEN"

\* bool(os.getenv(name))
Truthy(e, name) == e[name] # Unset /\ e[name] # ""

\* variant: the environment decides on every call, the flag is not cached
BWUnlock_NoCache(u, creds, e) ==
    Outcome(Truthy(e, "BW_SESSION"), creds, {}, <<"getenv">>, "", 0)

\* BWHelper.unlock
BWUnlock(u, creds, e) ==
    IF ~u
    THEN Outcome(Truthy(e, "BW_SESSION"), creds, {}, <<"getenv">>, "", 0)
    ELSE Outcome(u, creds, {}, <<>>, "", 0)

\* OPHelper.unlock
OPUnlock(u, creds, e, proc) ==
    IF ~u
    THEN IF Truthy(e, "OP_SERVICE_ACCOUNT_TOKEN")
         THEN Outcome(TRUE, creds, {}, <<"getenv">>, "", 0)
         ELSE LET r == run_command(proc, FALSE, TRUE, FALSE)
              IN  IF r.kind # "return"
                  THEN Outcome(u, creds, {}, <<"getenv", "op signin">>, r.kind, r.code)
                  ELSE Outcome(IF r.code = 0 THEN TRUE ELSE u, creds, {},
                               <<"getenv", "op signin">>, "", 0)
    ELSE Outcome(u, creds, {}, <<>>, "", 0)

\* the loop of BWHelper.fetch_credentials over fields i..3: one `bw get` per
\* field, stopping at the first call that raises
RECURSIVE BWGetFields(_, _, _, _, _)
BWGetFields(i, u, creds, procs, events) ==
    IF i > Len(Fields) THEN Outcome(u, creds, {creds}, events, "", 0)
    ELSE LET r == run_command(procs[i], TRUE, TRUE, TRUE)
             ev == Append(events, "vault get")
         IN  IF r.kind # "return" THEN Outcome(u, creds, {}, ev, r.kind, r.code)
             ELSE BWGetFields(i + 1, u, Put(creds, Fields[i], Strip(r.out)), procs, ev)

\* variant: the vault is queried without looking at the unlocked flag
BWFetchCredentials_NoLockCheck(u, item, creds, procs) ==
    IF item = "" THEN Outcome(u, creds, {}, <<>>, "ValueError", 1)
    ELSE BWGetFields(1, u, creds, procs, <<>>)

\* BWHelper.fetch_credentials
BWFetchCredentials(u, item, creds, procs) ==
    IF ~u THEN Outcome(u, creds, {}, <<>>, "CredentialsHelperError", 1)
    ELSE IF item = "" THEN Outcome(u, creds, {}, <<>>, "ValueError", 1)
    ELSE BWGetFields(1, u, creds, procs, <<>>)

\* json.loads(text): the 1Password CLI's stdout is modelled as a document
\* [json, array, items]; text that is not JSON does not load
JsonLoads(doc) == IF doc.json THEN {doc} ELSE {}

\* creds[i][key] of OPHelper.fetch_credentials: "" when it evaluates, else the
\* exception it raises (a JSON object has no key 0)
OPItemError(doc, i, key) ==
    IF ~doc.array THEN "KeyError"
    ELSE IF i > Len(doc.items) THEN "IndexError"
    ELSE IF key \notin DOMAIN doc.items[i] THEN "KeyError"
    ELSE ""

\* the three assignments of OPHelper.fetch_credentials, from the i-th on
OPItemKeys == <<"value", "value", "totp">>

\* variant: what could be read is returned
RECURSIVE OPAssign_Partial(_, _, _, _, _)
OPAssign_Partial(i, u, creds, doc, events) ==
    IF i > Len(Fields) THEN Outcome(u, creds, {creds}, events, "", 0)
    ELSE IF OPItemError(doc, i, OPItemKeys[i]) # ""
    THEN Outcome(u, creds, {creds}, events, "", 0)
    ELSE OPAssign_Partial(i + 1, u, Put(creds, Fields[i], doc.items[i][OPItemKeys[i]]), doc,
                          events)

RECURSIVE OPAssign(_, _, _, _, _)
OPAssign(i, u, creds, doc, events) ==
    IF i > Len(Fields) THEN Outcome(u, creds, {creds}, events, "", 0)
    ELSE IF OPItemError(doc, i, OPItemKeys[i]) # ""
    THEN Outcome(u, creds, {}, events, "CredentialsHelperError", 1)
    ELSE OPAssign(i + 1, u, Put(creds, Fields[i], doc.items[i][OPItemKeys[i]]), doc, events)

\* OPHelper.fetch_credentials
OPFetchCredentials(u, item, creds, proc) ==
    IF ~u THEN Outcome(u, creds, {}, <<>>, "CredentialsHelperError", 1)
    ELSE IF item = "" THEN Outcome(u, creds, {}, <<>>, "TypeError", 1)
    ELSE LET r == run_command(proc, TRUE, TRUE, TRUE)
         IN  IF r.kind # "return" THEN Outcome(u, creds, {}, <<"vault get">>, r.kind, r.code)
             ELSE IF JsonLoads(r.out) = {}
             THEN Outcome(u, creds, {}, <<"vault get">>, "JSONDecodeError", 1)
             ELSE OPAssign(1, u, creds, r.out, <<"vault get">>)

\* vault.unlock() / vault.fetch_credentials() of the helper class chosen by backend
Unlock(b, u, creds, e, proc) ==
    IF b = "bw" THEN BWUnlock(u, creds, e) ELSE OPUnlock(u, creds, e, proc)

FetchCredentials(b, u, item, creds, procs) ==
    IF b = "bw" THEN BWFetchCredentials(u, item, creds, procs)
    ELSE OPFetchCredentials(u, item, creds, procs[1])

-----------------------------------------------------------------------------
(* Signing client *)

\* A reply of the signing service: resp = [sent, status, body] where sent is
\* "ok" or the exception requests.post raised, and
\* body = [json, public, private, payload, message]: whether the body parses
\* as JSON, its `public` and `private` fields (NoValue when missing), whether
\* it has a `payload` and the payload's `message` (NoValue when missing).

\* response.raise_for_status(): HTTPError for a 4xx or 5xx status
RaisesForStatus(status) == status >= 400 /\ status < 600

ApiResult(kind, priv, pub, exc, code, logged) ==
    [kind |-> kind, private |-> priv, public |-> pub, raised |-> exc, code |-> code,
     logged |-> logged]

\* variant: the pair is returned as (public, private)
get_keys_from_api_Swapped(resp) ==
    IF resp.sent # "ok" THEN ApiResult("raise", NoValue, NoValue, resp.sent, 1, <<>>)
    ELSE IF RaisesForStatus(resp.status)
    THEN IF ~resp.body.json
         THEN ApiResult("raise", NoValue, NoValue, "SystemExit", 1, <<>>)
         ELSE IF resp.body.payload /\ resp.body.message # NoValue
         THEN ApiResult("raise", NoValue, NoValue, "SystemExit", 1,
                        << [text |-> "Error: {payload}", message |-> resp.body.message] >>)
         ELSE ApiResult("return", NoValue, NoValue, "", 0, <<>>)
    ELSE IF ~resp.body.json
    THEN ApiResult("raise", NoValue, NoValue, "JSONDecodeError", 1, <<>>)
    ELSE IF resp.body.public = NoValue \/ resp.body.private = NoValue
    THEN ApiResult("raise", NoValue, NoValue, "ValidationError", 1, <<>>)
    ELSE ApiResult("return", resp.body.public, resp.body.private, "", 0, <<>>)

\* get_keys_from_api(username, password, totp)
get_keys_from_api(resp) ==
    IF resp.sent # "ok" THEN ApiResult("raise", NoValue, NoValue, resp.sent, 1, <<>>)
    ELSE IF RaisesForStatus(resp.status)
    THEN IF ~resp.body.json
         THEN ApiResult("raise", NoValue, NoValue, "SystemExit", 1, <<>>)
         ELSE IF resp.body.payload /\ resp.body.message # NoValue
         THEN ApiResult("raise", NoValue, NoValue, "SystemExit", 1,
                        << [text |-> "Error: {payload}", message |-> resp.body.message] >>)
         ELSE ApiResult("return", NoValue, NoValue, "", 0, <<>>)
    ELSE IF ~resp.body.json
    THEN ApiResult("raise", NoValue, NoValue, "JSONDecodeError", 1, <<>>)
    ELSE IF resp.body.public = NoValue \/ resp.body.private = NoValue
    THEN ApiResult("raise", NoValue, NoValue, "ValidationError", 1, <<>>)
    ELSE ApiResult("return", resp.body.private, resp.body.public, "", 0, <<>>)

-----------------------------------------------------------------------------
(* Key pair store *)

PRIVATE_MODE == "0600"
PUBLIC_MODE == "0644"
\* mode of a file that write_text creates: 0666 masked by the umask
CREATE_MODE == "0666&~umask"

NoFile == [present |-> FALSE, content |-> "", mode |-> "", ctime |-> 0]

\* Key.exists: the result, and the Key objects after the call
KeyExists(d, k) == d[k].present

KeyExistsMem(m, d, k) ==
    IF d[k].present THEN [m EXCEPT ![k].content = d[k].content] ELSE m

\* variant: only the private key is looked for
KeysExist_PrivateOnly(d) == KeyExists(d, "private")

\* variant: `and` in place of `or`
KeysExist_Both(d) == KeyExists(d, "private") /\ KeyExists(d, "public")

\* Keys.exist: private_key.exists() or public_key.exists()
KeysExist(d) == KeyExists(d, "private") \/ KeyExists(d, "public")

KeysExistMem(m, d) ==
    IF KeyExists(d, "private") THEN KeyExistsMem(m, d, "private")
    ELSE KeyExistsMem(m, d, "public")

\* Key.delete: unlink(missing_ok=True)
KeyDelete(d, k) == [d EXCEPT ![k] = NoFile]

\* variant: the certificate is kept
KeysDelete_PrivateOnly(d) == KeyDelete(d, "private")

\* Keys.delete
KeysDelete(d) == KeyDelete(KeyDelete(d, "private"), "public")

\* Key.c_time: the value, and the Key objects after the call
KeyCTime(m, d, k) ==
    IF d[k].present /\ m[k].c_time = 0 THEN d[k].ctime ELSE m[k].c_time

KeyCTimeMem(m, d, k) == [m EXCEPT ![k].c_time = KeyCTime(m, d, k)]

SaveResult(d, events, exc, code, logged) ==
    [disk |-> d, events |-> events, raised |-> exc, code |-> code, logged |-> logged]

\* variant: the content is written whatever it is
KeySave_NoEmptyCheck(m, d, k, t, fs) ==
    LET written == [present |-> TRUE, content |-> m[k].content,
                    mode |-> IF d[k].present THEN d[k].mode ELSE CREATE_MODE, ctime |-> t]
    IN
    IF fs.write = "open_error"
    THEN SaveResult(d, <<>>, "SystemExit", 1, << [text |-> "could not write", message |-> k] >>)
    ELSE IF fs.write = "write_error"
    THEN SaveResult([d EXCEPT ![k] = [written EXCEPT !.content = ""]], <<"write " \o k>>,
                    "SystemExit", 1, << [text |-> "could not write", message |-> k] >>)
    ELSE IF fs.chmod = "PermissionError"
    THEN SaveResult([d EXCEPT ![k] = written], <<"write " \o k>>,
                    "SystemExit", 1, << [text |-> "could not set permissions", message |-> k] >>)
    ELSE IF fs.chmod # "ok"
    THEN SaveResult([d EXCEPT ![k] = written], <<"write " \o k>>, fs.chmod, 1, <<>>)
    ELSE SaveResult([d EXCEPT ![k] = [written EXCEPT
                                        !.mode = IF k = "private" THEN PRIVATE_MODE
                                                 ELSE PUBLIC_MODE]],
                    <<"write " \o k, "chmod " \o k>>, "", 0, <<>>)

\* variant: a chmod that fails is logged and the save goes on
KeySave_IgnoreChmod(m, d, k, t, fs) ==
    LET written == [present |-> TRUE, content |-> m[k].content,
                    mode |-> IF d[k].present THEN d[k].mode ELSE CREATE_MODE, ctime |-> t]
    IN
    IF m[k].content = ""
    THEN SaveResult(d, <<>>, "TypeError", 1,
                    << [text |-> "key content is invalid", message |-> k] >>)
    ELSE IF fs.write = "open_error"
    THEN SaveResult(d, <<>>, "SystemExit", 1, << [text |-> "could not write", message |-> k] >>)
    ELSE IF fs.write = "write_error"
    THEN SaveResult([d EXCEPT ![k] = [written EXCEPT !.content = ""]], <<"write " \o k>>,
                    "SystemExit", 1, << [text |-> "could not write", message |-> k] >>)
    ELSE IF fs.chmod # "ok"
    THEN SaveResult([d EXCEPT ![k] = written], <<"write " \o k>>, "", 0,
                    << [text |-> "could not set permissions", message |-> k] >>)
    ELSE SaveResult([d EXCEPT ![k] = [written EXCEPT
                                        !.mode = IF k = "private" THEN PRIVATE_MODE
                                                 ELSE PUBLIC_MODE]],
                    <<"write " \o k, "chmod " \o k>>, "", 0, <<>>)

\* Key.save; fs = [write, chmod] is what the filesystem does:
\* write "ok", "open_error" (the file cannot be opened) or "write_error"
\* (opened and truncated, then the write fails); chmod "ok", "PermissionError"
\* (caught and turned into SystemExit(1)) or another "OSError" (not caught)
KeySave(m, d, k, t, fs) ==
    LET written == [present |-> TRUE, content |-> m[k].content,
                    mode |-> IF d[k].present THEN d[k].mode ELSE CREATE_MODE, ctime |-> t]
    IN
    IF m[k].content = ""
    THEN SaveResult(d, <<>>, "TypeError", 1, << [text |-> "key content is invalid", message |-> k] >>)
    ELSE IF fs.write = "open_error"
    THEN SaveResult(d, <<>>, "SystemExit", 1, << [text |-> "could not write", message |-> k] >>)
    ELSE IF fs.write = "write_error"
    THEN SaveResult([d EXCEPT ![k] = [written EXCEPT !.content = ""]], <<"write " \o k>>,
                    "SystemExit", 1, << [text |-> "could not write", message |-> k] >>)
    ELSE IF fs.chmod = "PermissionError"
    THEN SaveResult([d EXCEPT ![k] = written], <<"write " \o k>>,
                    "SystemExit", 1, << [text |-> "could not set permissions", message |-> k] >>)
    ELSE IF fs.chmod # "ok"
    THEN SaveResult([d EXCEPT ![k] = written], <<"write " \o k>>, fs.chmod, 1, <<>>)
    ELSE SaveResult([d EXCEPT ![k] = [written EXCEPT
                                        !.mode = IF k = "private" THEN PRIVATE_MODE ELSE PUBLIC_MODE]],
                    <<"write " \o k, "chmod " \o k>>, "", 0, <<>>)

\* Keys.save: private_key.save() then public_key.save()
KeysSave(m, d, t, fsPriv, fsPub) ==
    LET r1 == KeySave(m, d, "private", t, fsPriv)
    IN  IF r1.raised # "" THEN r1
        ELSE LET r2 == KeySave(m, r1.disk, "public", t, fsPub)
             IN  SaveResult(r2.disk, r1.events \o r2.events, r2.raised, r2.code, r2.logged)

-----------------------------------------------------------------------------
(* Agent bridge *)

\* str.split(): the whitespace-separated tokens of s
RECURSIVE Split(_, _, _)
Split(s, cur, acc) ==
    IF s = <<>> THEN (IF cur = <<>> THEN acc ELSE Append(acc, cur))
    ELSE IF Head(s) \in WS
    THEN Split(Tail(s), <<>>, IF cur = <<>> THEN acc ELSE Append(acc, cur))
    ELSE Split(Tail(s), Append(cur, Head(s)), acc)

\* Key.fingerprint: [fingerprint, ran, raised, code]; ran tells whether
\* ssh-keygen was spawned (the value is cached once it is non-empty)
KeyFingerprint(m, k, proc) ==
    IF m[k].fingerprint # <<>>
    THEN [fingerprint |-> m[k].fingerprint, ran |-> FALSE, raised |-> "", code |-> 0]
    ELSE LET r == run_command(proc, TRUE, TRUE, FALSE)
             tokens == Split(Strip(r.out), <<>>, <<>>)
         IN  IF r.kind # "return"
             THEN [fingerprint |-> <<>>, ran |-> TRUE, raised |-> r.kind, code |-> r.code]
             ELSE IF Len(tokens) < 2
             THEN [fingerprint |-> <<>>, ran |-> TRUE, raised |-> "IndexError", code |-> 1]
             ELSE [fingerprint |-> tokens[2], ran |-> TRUE, raised |-> "", code |-> 0]

\* variant: the platform is not looked at
is_agent_running_AnyPlatform(plat, e) == e["SSH_AUTH_SOCK"] # Unset

\* is_agent_running
is_agent_running(plat, e) ==
    IF plat = "win32" THEN FALSE ELSE e["SSH_AUTH_SOCK"] # Unset

\* variant: the listing has to be the fingerprint itself
is_key_in_agent_Exact(fingerprint, listing) == fingerprint = listing

\* is_key_in_agent, given the fingerprint and what `ssh-add -l` does
is_key_in_agent(fingerprint, listing) == IsSubstring(fingerprint, listing)

-----------------------------------------------------------------------------
(* Inputs the environment can supply *)

FRESH_HOURS == 24

Now == 2 * MaxAge
Ages == {0, FRESH_HOURS - 1, FRESH_HOURS, MaxAge}

Proc(found, rc, out) == [found |-> found, rc |-> rc, stdout |-> out]
Failing == {Proc(FALSE, 127, <<>>), Proc(TRUE, 1, <<>>)}

SigninProcs == Failing \cup {Proc(TRUE, 0, <<>>)}

U_OK == <<"a", "b">>
P_OK == <<"p", " ", "w">>
T_OK == <<"1", "2", "3", "4", "5", "6">>

\* what `bw get <field>` may do, per field
BWProcs ==
    << Failing \cup {Proc(TRUE, 0, U_OK \o <<"\n">>), Proc(TRUE, 0, <<"A", "b", "\n">>)},
       Failing \cup {Proc(TRUE, 0, P_OK \o <<"\n">>), Proc(TRUE, 0, <<"\n">>)},
       Failing \cup {Proc(TRUE, 0, <<" ">> \o T_OK \o <<"\n">>), Proc(TRUE, 0, <<"1", "2", "\n">>)} >>

Doc(json, array, items) == [json |-> json, array |-> array, items |-> items]
Value(v) == [x \in {"value"} |-> v]
Totp(v) == [x \in {"totp"} |-> v]

\* what `op item get` may print
OPDocs ==
    { Doc(FALSE, FALSE, <<>>),
      Doc(TRUE, FALSE, <<>>),
      Doc(TRUE, TRUE, <<Value(U_OK), Value(P_OK), Totp(T_OK)>>),
      Doc(TRUE, TRUE, <<>>),
      Doc(TRUE, TRUE, <<Value(U_OK), Value(P_OK)>>),
      Doc(TRUE, TRUE, <<Value(U_OK), Totp(P_OK), Totp(T_OK)>>),
      Doc(TRUE, TRUE, <<Value(U_OK), Value(P_OK), Value(T_OK)>>),
      Doc(TRUE, TRUE, <<Value(<<"A">>), Value(P_OK), Totp(T_OK)>>),
      Doc(TRUE, TRUE, <<Value(U_OK), Value(<<>>), Totp(<<"1", "2">>)>>) }

OPProcs == Failing \cup {Proc(TRUE, 0, d) : d \in OPDocs}

\* the programs fetch_credentials() spawns, as a sequence
VaultProcs(b) ==
    IF b = "bw" THEN {<<p1, p2, p3>> : p1 \in BWProcs[1], p2 \in BWProcs[2], p3 \in BWProcs[3]}
    ELSE {<<p>> : p \in OPProcs}

Body(json, public, private, payload, message) ==
    [json |-> json, public |-> public, private |-> private,
     payload |-> payload, message |-> message]

Bodies ==
    { Body(FALSE, NoValue, NoValue, FALSE, NoValue),
      Body(TRUE, "PUB", "PRI", FALSE, NoValue),
      Body(TRUE, "", "PRI", FALSE, NoValue),
      Body(TRUE, "PUB", "", FALSE, NoValue),
      Body(TRUE, "PUB", NoValue, FALSE, NoValue),
      Body(TRUE, NoValue, NoValue, FALSE, NoValue),
      Body(TRUE, NoValue, NoValue, TRUE, NoValue),
      Body(TRUE, NoValue, NoValue, TRUE, "bad otp") }

Statuses == {200, 304, 400, 500}

NoBody == Body(FALSE, NoValue, NoValue, FALSE, NoValue)
NoResponse == [sent |-> "", status |-> 0, body |-> NoBody]

Responses ==
    {[sent |-> "ConnectionError", status |-> 0, body |-> NoBody]}
    \cup {[sent |-> "ok", status |-> st, body |-> b] : st \in Statuses, b \in Bodies}

FsOutcomes == {[write |-> w, chmod |-> c] :
                 w \in {"ok", "open_error", "write_error"},
                 c \in {"ok", "PermissionError", "OSError"}}

\* fingerprint of a key, by its content, and the line ssh-keygen -lf prints
Fingerprint(content) ==
    IF content = "PRI" THEN <<"S", ":", "a", "b">> ELSE <<"S", ":", "a">>
KeygenLine(content) == <<"2", " ">> \o Fingerprint(content) \o <<" ", "c", "\n">>

KeygenProcs(d) ==
    IF d["private"].present
    THEN {Proc(TRUE, 0, KeygenLine(d["private"].content)), Proc(TRUE, 0, <<"?", "\n">>),
          Proc(TRUE, 255, <<>>)}
    ELSE {Proc(TRUE, 255, <<>>)}

Listings == {<<"n", "o", "n", "e", "\n">>, KeygenLine("PRI")}

EnvValues == {Unset, "", "tok"}
Env(bw, op, sock) ==
    [v \in {"BW_SESSION", "OP_SERVICE_ACCOUNT_TOKEN", "SSH_AUTH_SOCK"} |->
        IF v = "BW_SESSION" THEN bw ELSE IF v = "OP_SERVICE_ACCOUNT_TOKEN" THEN op ELSE sock]

\* environments that differ in the token variable the backend reads
TokenEnvs(b) == {IF b = "bw" THEN Env(t, Unset, Unset) ELSE Env(Unset, t, Unset) : t \in EnvValues}

KeyObjects == [k \in KeyTypes |-> [content |-> "", c_time |-> 0, fingerprint |-> <<>>]]

File(content, mode, ctime) == [present |-> TRUE, content |-> content, mode |-> mode, ctime |-> ctime]

Disks ==
    {[k \in KeyTypes |-> IF k = "private" THEN pr ELSE pu] :
        pr \in {NoFile} \cup {File("OLDPRI", PRIVATE_MODE, Now - a) : a \in Ages},
        pu \in {NoFile, File("OLDPUB", PUBLIC_MODE, Now - MaxAge)}}

-----------------------------------------------------------------------------
(* The two commands, one invocation per behaviour *)

\* an entry of the history, with the helper's state when it happened
Ev(name, ok) == [ev |-> name, unlocked |-> unlocked, item |-> item_name, ok |-> ok]
Evs(names) == [i \in 1..Len(names) |-> Ev(names[i], TRUE)]

HelperFresh ==
    /\ unlocked = FALSE
    /\ credentials = EmptyCreds
    /\ returned = {}

ProcessFresh ==
    /\ mem = KeyObjects
    /\ private_key = NoValue
    /\ public_key = NoValue
    /\ response = NoResponse
    /\ fsdone = <<>>
    /\ vault_out = <<>>
    /\ runs = 1
    /\ ran = {}
    /\ exit_code = 0
    /\ raised = ""
    /\ errlog = <<>>
    /\ trace = <<>>
    /\ calls = 0
    /\ now = Now

InitFetch ==
    /\ cmd = "fetch"
    /\ pc = "fetch:check"
    /\ dry_run \in BOOLEAN
    /\ force \in BOOLEAN
    /\ backend \in {"bw", "op"}
    /\ item_name \in {"", "item"}
    /\ env \in TokenEnvs(backend)
    /\ platform = "linux"
    /\ agent \in {KeygenLine("PRI")}
    /\ disk \in Disks

InitAdd ==
    /\ cmd = "add"
    /\ pc = "add:check"
    /\ dry_run \in BOOLEAN
    /\ force = FALSE
    /\ backend = "bw"
    /\ item_name = ""
    /\ env \in {Env(Unset, Unset, sock) : sock \in {Unset, "", "sock"}}
    /\ platform \in {"linux", "darwin", "win32"}
    /\ agent \in Listings
    /\ disk \in Disks

Init ==
    /\ HelperFresh
    /\ ProcessFresh
    /\ (InitFetch \/ InitAdd)
    /\ disk0 = disk
    /\ agent0 = agent
    /\ loads = 0

\* the process ends with this status
Exit(code, exc) ==
    /\ pc' = "exit"
    /\ exit_code' = code
    /\ raised' = exc

Goto(label) ==
    /\ pc' = label
    /\ UNCHANGED <<exit_code, raised>>

Options == <<cmd, dry_run, force, backend, item_name, platform, env, now, calls, disk0, runs,
            agent0, ran>>
Inputs == <<Options, vault_out>>

\* the request and the save are yet to happen, or never do
NotYet == <<response, fsdone>>

\* variant: --force deletes the pair in a dry run too
FetchCheckExisting_DryRunDeletes ==
    /\ pc = "fetch:check"
    /\ mem' = KeysExistMem(mem, disk)
    /\ IF KeysExist(disk)
       THEN IF ~force
            THEN /\ Exit(1, "SystemExit")
                 /\ UNCHANGED <<disk, trace>>
            ELSE /\ disk' = KeysDelete(disk)
                 /\ trace' = trace \o Evs(<<"unlink private", "unlink public">>)
                 /\ Goto("fetch:unlock")
       ELSE /\ Goto("fetch:unlock")
            /\ UNCHANGED <<disk, trace>>
    /\ UNCHANGED <<Inputs, NotYet, unlocked, credentials, returned, private_key, public_key,
                   agent, loads, errlog>>

\* fetch, app.py lines 59-73: the existing pair
FetchCheckExisting ==
    /\ pc = "fetch:check"
    /\ mem' = KeysExistMem(mem, disk)
    /\ IF KeysExist(disk)
       THEN IF ~force
            THEN /\ Exit(1, "SystemExit")
                 /\ UNCHANGED <<disk, trace>>
            ELSE IF dry_run
            THEN /\ Goto("fetch:unlock")
                 /\ UNCHANGED <<disk, trace>>
            ELSE /\ disk' = KeysDelete(disk)
                 /\ trace' = trace \o Evs(<<"unlink private", "unlink public">>)
                 /\ Goto("fetch:unlock")
       ELSE /\ Goto("fetch:unlock")
            /\ UNCHANGED <<disk, trace>>
    /\ UNCHANGED <<Inputs, NotYet, unlocked, credentials, returned, private_key, public_key,
                   agent, loads, errlog>>

\* fetch, lines 75-81: the helper is built and vault.unlock() called
FetchUnlock ==
    /\ pc = "fetch:unlock"
    /\ \E proc \in SigninProcs :
        LET o == Unlock(backend, unlocked, credentials, env, proc)
        IN  /\ unlocked' = o.unlocked
            /\ trace' = trace \o Evs(o.events) \o <<Ev("unlock()", o.raised = "")>>
            /\ IF o.raised # "" THEN Exit(o.code, o.raised) ELSE Goto("fetch:creds")
    /\ UNCHANGED <<Inputs, NotYet, disk, mem, credentials, returned, private_key, public_key,
                   agent, loads, errlog>>

\* fetch, line 82: vault.fetch_credentials()
FetchCreds ==
    /\ pc = "fetch:creds"
    /\ \E procs \in VaultProcs(backend) :
        LET o == FetchCredentials(backend, unlocked, item_name, credentials, procs)
        IN  /\ credentials' = o.credentials
            /\ returned' = o.ret
            /\ vault_out' = IF o.events = <<>> THEN <<>> ELSE procs
            /\ trace' = trace \o Evs(o.events) \o <<Ev("fetch_credentials()", o.raised = "")>>
            /\ IF o.raised # "" THEN Exit(o.code, o.raised) ELSE Goto("fetch:validate")
    /\ UNCHANGED <<Options, NotYet, disk, mem, unlocked, private_key, public_key, agent, loads, errlog>>

\* variant: the result of the validation is not acted on
FetchValidate_NoAbort ==
    /\ pc = "fetch:validate"
    /\ trace' = Append(trace, Ev("are_credentials_valid()", are_credentials_valid(credentials)))
    /\ Goto("fetch:sign")
    /\ UNCHANGED <<Inputs, NotYet, disk, mem, unlocked, credentials, returned, private_key,
                   public_key, agent, loads, errlog>>

\* fetch, lines 85-88: vault.are_credentials_valid()
FetchValidate ==
    /\ pc = "fetch:validate"
    /\ LET v == are_credentials_valid(credentials)
       IN  /\ trace' = Append(trace, Ev("are_credentials_valid()", v))
           /\ IF v THEN Goto("fetch:sign") /\ UNCHANGED errlog
              ELSE /\ Exit(1, "SystemExit")
                   /\ errlog' = Append(errlog, [text |-> "Credentials are not valid.",
                                                message |-> ""])
    /\ UNCHANGED <<Inputs, NotYet, disk, mem, unlocked, credentials, returned, private_key,
                   public_key, agent, loads>>

\* fetch, line 95: `private_key and public_key`
BothKeys_Either(priv, pub) == priv \notin {NoValue, ""} \/ pub \notin {NoValue, ""}

BothKeys(priv, pub) == priv \notin {NoValue, ""} /\ pub \notin {NoValue, ""}

\* variant: a failed request is tried again
SignFailed_Retry(code, exc) == Goto("fetch:sign")

\* fetch, lines 92-96: a request that fails ends the invocation
\* (SystemExit in get_keys_from_api, sys.exit in fetch)
SignFailed(code, exc) == Exit(code, exc)

\* fetch, lines 90-96 and 103-104: the signing request
FetchSign ==
    /\ pc = "fetch:sign"
    /\ IF dry_run
       THEN /\ Exit(0, "")
            /\ UNCHANGED <<private_key, public_key, response, trace, errlog>>
       ELSE \E resp \in Responses :
            LET r == get_keys_from_api(resp)
            IN  /\ response' = resp
                /\ trace' = Append(trace, Ev("POST", r.kind = "return"))
                /\ IF r.kind = "raise"
                   THEN /\ SignFailed(r.code, r.raised)
                        /\ errlog' = errlog \o r.logged
                        /\ UNCHANGED <<private_key, public_key>>
                   ELSE /\ private_key' = r.private
                        /\ public_key' = r.public
                        /\ IF ~BothKeys(r.private, r.public)
                           THEN /\ SignFailed(1, "SystemExit")
                                /\ errlog' = Append(errlog,
                                       [text |-> "Could not fetch signed key from CSCS API.",
                                        message |-> ""])
                           ELSE /\ Goto("fetch:save")
                                /\ UNCHANGED errlog
    /\ UNCHANGED <<Inputs, fsdone, disk, mem, unlocked, credentials, returned, agent, loads>>

\* fetch, lines 98-102: the contents are assigned and keys.save() called
FetchSave ==
    /\ pc = "fetch:save"
    /\ \E fsPriv \in FsOutcomes, fsPub \in FsOutcomes :
        LET m == [mem EXCEPT !["private"].content = private_key,
                             !["public"].content = public_key]
            r == KeysSave(m, disk, now, fsPriv, fsPub)
        IN  /\ mem' = m
            /\ fsdone' = <<fsPriv, fsPub>>
            /\ disk' = r.disk
            /\ trace' = trace \o Evs(r.events)
            /\ errlog' = errlog \o r.logged
            /\ Exit(r.code, r.raised)
    /\ UNCHANGED <<Inputs, response, unlocked, credentials, returned, private_key, public_key, agent, loads>>

\* variant: the error is logged but the command goes on
AddCheckExist_NoExit ==
    /\ pc = "add:check"
    /\ mem' = KeysExistMem(mem, disk)
    /\ Goto("add:age")
    /\ errlog' = IF KeysExist(disk) THEN errlog
                 ELSE Append(errlog, [text |-> "No valid keys found.", message |-> ""])
    /\ UNCHANGED <<Inputs, NotYet, disk, unlocked, credentials, returned, private_key, public_key,
                   agent, loads, trace>>

\* add, app.py lines 113-117: is there a key pair
AddCheckExist ==
    /\ pc = "add:check"
    /\ mem' = KeysExistMem(mem, disk)
    /\ IF ~KeysExist(disk)
       THEN /\ Exit(1, "SystemExit")
            /\ errlog' = Append(errlog, [text |-> "No valid keys found.", message |-> ""])
       ELSE /\ Goto("add:age")
            /\ UNCHANGED errlog
    /\ UNCHANGED <<Inputs, NotYet, disk, unlocked, credentials, returned, private_key, public_key,
                   agent, loads, trace>>

\* add, line 122: `delta >= timedelta(hours=24.0)`
IsStale_Exclusive(delta) == delta > FRESH_HOURS

IsStale(delta) == delta >= FRESH_HOURS

\* variant: a private key that is not there is not taken for stale
AddCheckAge_SkipAbsent ==
    /\ pc = "add:age"
    /\ mem' = KeyCTimeMem(mem, disk, "private")
    /\ LET delta == now - KeyCTime(mem, disk, "private")
       IN  IF disk["private"].present /\ IsStale(delta)
           THEN Exit(1, "SystemExit")
           ELSE Goto("add:dry")
    /\ UNCHANGED <<Inputs, NotYet, disk, unlocked, credentials, returned, private_key, public_key,
                   agent, loads, trace, errlog>>

\* variant: a stale pair is removed to make room for a new one
AddCheckAge_Refresh ==
    /\ pc = "add:age"
    /\ mem' = KeyCTimeMem(mem, disk, "private")
    /\ LET delta == now - KeyCTime(mem, disk, "private")
       IN  IF IsStale(delta)
           THEN /\ Exit(1, "SystemExit")
                /\ disk' = KeysDelete(disk)
                /\ trace' = trace \o Evs(<<"unlink private", "unlink public">>)
           ELSE /\ Goto("add:dry")
                /\ UNCHANGED <<disk, trace>>
    /\ UNCHANGED <<Inputs, NotYet, unlocked, credentials, returned, private_key, public_key,
                   agent, loads, errlog>>

\* add, lines 119-124: the age of the private key
AddCheckAge ==
    /\ pc = "add:age"
    /\ mem' = KeyCTimeMem(mem, disk, "private")
    /\ LET delta == now - KeyCTime(mem, disk, "private")
       IN  IF IsStale(delta) THEN Exit(1, "SystemExit") ELSE Goto("add:dry")
    /\ UNCHANGED <<Inputs, NotYet, disk, unlocked, credentials, returned, private_key, public_key,
                   agent, loads, trace, errlog>>

\* add, lines 126-128: a dry run stops here
AddDryRun ==
    /\ pc = "add:dry"
    /\ IF dry_run THEN Exit(0, "SystemExit") ELSE Goto("add:agent")
    /\ UNCHANGED <<Inputs, NotYet, disk, mem, unlocked, credentials, returned, private_key,
                   public_key, agent, loads, trace, errlog>>

\* add, lines 130-132: is the agent reachable
AddAgentCheck ==
    /\ pc = "add:agent"
    /\ IF ~is_agent_running(platform, env)
       THEN /\ Exit(1, "SystemExit")
            /\ errlog' = Append(errlog, [text |-> "SSH agent is not running.", message |-> ""])
       ELSE /\ Goto("add:inagent")
            /\ UNCHANGED errlog
    /\ UNCHANGED <<Inputs, NotYet, disk, mem, unlocked, credentials, returned, private_key,
                   public_key, agent, loads, trace>>

\* add, lines 134-136: the fingerprint is computed, then looked up in `ssh-add -l`
AddInAgent ==
    /\ pc = "add:inagent"
    /\ \E kproc \in KeygenProcs(disk), lproc \in {Proc(TRUE, 0, agent), Proc(TRUE, 1, agent),
                                                   Proc(FALSE, 127, <<>>)} :
        LET f == KeyFingerprint(mem, "private", kproc)
            l == run_command(lproc, TRUE, FALSE, FALSE)
            fev == IF f.ran THEN <<"ssh-keygen -lf">> ELSE <<>>
        IN  /\ mem' = [mem EXCEPT !["private"].fingerprint = f.fingerprint]
            /\ IF f.raised # ""
               THEN /\ trace' = trace \o Evs(fev)
                    /\ Exit(f.code, f.raised)
               ELSE /\ trace' = trace \o Evs(fev \o <<"ssh-add -l">>)
                    /\ IF l.kind # "return" THEN Exit(l.code, l.kind)
                       ELSE IF is_key_in_agent(f.fingerprint, l.out)
                       THEN Exit(0, "SystemExit")
                       ELSE Goto("add:load")
    /\ UNCHANGED <<Inputs, NotYet, disk, unlocked, credentials, returned, private_key, public_key,
                   agent, loads, errlog>>

\* add_key_to_agent: the result of run_command on the agent-add command
add_key_to_agent(proc) == run_command(proc, TRUE, TRUE, FALSE)

\* add, lines 138-141: the key is handed to the agent
AddToAgent ==
    /\ pc = "add:load"
    /\ \E proc \in Failing \cup {Proc(TRUE, 0, <<>>)} :
        LET r == add_key_to_agent(proc)
        IN  /\ trace' = Append(trace, Ev("ssh-add", r.kind = "return"))
            /\ IF r.kind # "return"
               THEN Exit(r.code, r.kind) /\ UNCHANGED <<agent, loads>>
               ELSE /\ Exit(0, "")
                    /\ agent' = agent \o KeygenLine(disk["private"].content)
                    /\ loads' = loads + 1
    /\ UNCHANGED <<Inputs, NotYet, disk, mem, unlocked, credentials, returned, private_key,
                   public_key, errlog>>

Fetch == FetchCheckExisting \/ FetchUnlock \/ FetchCreds \/ FetchValidate \/ FetchSign \/ FetchSave

Add == AddCheckExist \/ AddCheckAge \/ AddDryRun \/ AddAgentCheck \/ AddInAgent \/ AddToAgent

Next == Fetch \/ Add

Spec == Init /\ [][Next]_vars

-----------------------------------------------------------------------------
(* The same command run again, in a row: a new process, the same files,     *)
(* the same agent, the same options and environment.                        *)

StartOf(c) == IF c = "fetch" THEN "fetch:check" ELSE "add:check"

\* main() is entered again once the previous process has ended
Rerun ==
    /\ pc = "exit"
    /\ runs < MaxRuns
    /\ runs' = runs + 1
    /\ pc' = StartOf(cmd)
    /\ unlocked' = FALSE
    /\ credentials' = EmptyCreds
    /\ returned' = {}
    /\ mem' = KeyObjects
    /\ private_key' = NoValue
    /\ public_key' = NoValue
    /\ response' = NoResponse
    /\ fsdone' = <<>>
    /\ vault_out' = <<>>
    /\ exit_code' = 0
    /\ raised' = ""
    /\ errlog' = <<>>
    /\ trace' = <<>>
    /\ disk0' = disk
    /\ agent0' = agent
    /\ UNCHANGED <<cmd, dry_run, force, backend, item_name, platform, env, now, calls, disk,
                   agent, loads, ran>>

RerunSpec == Init /\ [][Next \/ Rerun]_vars

-----------------------------------------------------------------------------
(* A vault helper under any sequence of calls: unlock() and                 *)
(* fetch_credentials() in any order, the environment changing in between.   *)

InitHelper ==
    /\ HelperFresh
    /\ ProcessFresh
    /\ cmd = "helper"
    /\ pc = "helper"
    /\ dry_run = FALSE
    /\ force = FALSE
    /\ backend \in {"bw", "op"}
    /\ item_name \in {"", "item"}
    /\ env \in TokenEnvs(backend)
    /\ platform = "linux"
    /\ agent = <<>>
    /\ disk = [k \in KeyTypes |-> NoFile]
    /\ disk0 = disk
    /\ agent0 = agent
    /\ loads = 0

HelperFrame == <<cmd, dry_run, force, backend, item_name, platform, now, disk, mem,
                 private_key, public_key, disk0, response, fsdone, runs, agent, agent0, loads,
                 pc, exit_code, errlog, ran>>

\* a call of vault.unlock()
CallUnlock ==
    /\ calls < MaxCalls
    /\ calls' = calls + 1
    /\ \E proc \in SigninProcs :
        LET o == Unlock(backend, unlocked, credentials, env, proc)
        IN  /\ unlocked' = o.unlocked
            /\ raised' = o.raised
            /\ trace' = trace \o Evs(o.events) \o <<Ev("unlock()", o.raised = "")>>
    /\ UNCHANGED <<HelperFrame, env, credentials, returned, vault_out>>

\* a call of vault.fetch_credentials()
CallFetchCredentials ==
    /\ calls < MaxCalls
    /\ calls' = calls + 1
    /\ \E procs \in VaultProcs(backend) :
        LET o == FetchCredentials(backend, unlocked, item_name, credentials, procs)
        IN  /\ unlocked' = o.unlocked
            /\ credentials' = o.credentials
            /\ returned' = o.ret
            /\ vault_out' = IF o.events = <<>> THEN <<>> ELSE procs
            /\ raised' = o.raised
            /\ trace' = trace \o Evs(o.events) \o <<Ev("fetch_credentials()", o.raised = "")>>
    /\ UNCHANGED <<HelperFrame, env>>

\* the session token is exported, emptied or removed
EnvChange ==
    /\ calls < MaxCalls
    /\ env' \in TokenEnvs(backend) \ {env}
    /\ UNCHANGED <<HelperFrame, calls, unlocked, credentials, returned, vault_out, raised, trace>>

NextHelper == CallUnlock \/ CallFetchCredentials \/ EnvChange

HelperSpec == InitHelper /\ [][NextHelper]_vars

-----------------------------------------------------------------------------
(* A Keys object under any sequence of calls: the contents are assigned,    *)
(* save(), delete() and exist() are called on the pair or on one key.       *)

\* what a caller assigns to Key.content
KeyContents(k) == {"", IF k = "private" THEN "PRI" ELSE "PUB"}

InitKeys ==
    /\ HelperFresh
    /\ ProcessFresh
    /\ cmd = "keys"
    /\ pc = "keys"
    /\ dry_run = FALSE
    /\ force = FALSE
    /\ backend = "bw"
    /\ item_name = ""
    /\ env = Env(Unset, Unset, Unset)
    /\ platform = "linux"
    /\ agent = <<>>
    /\ disk \in {d \in Disks : d["private"].present => d["private"].ctime = Now}
    /\ disk0 = disk
    /\ agent0 = agent
    /\ loads = 0

KeysFrame == <<cmd, dry_run, force, backend, item_name, platform, env, now, unlocked,
               credentials, returned, private_key, public_key, disk0, response, vault_out,
               runs, agent, agent0, loads, pc, exit_code, ran>>

\* key.content = value
SetContent ==
    /\ calls < MaxCalls
    /\ \E k \in KeyTypes : \E v \in KeyContents(k) \ {mem[k].content} :
        mem' = [mem EXCEPT ![k].content = v]
    /\ UNCHANGED <<KeysFrame, calls, disk, fsdone, raised, errlog, trace>>

\* what the filesystem does to the two saves of keys.save(); the second
\* save is reached only when the first one went through
FsPairs ==
    {<<a, b>> \in FsOutcomes \X FsOutcomes :
        (a.write # "ok" \/ a.chmod # "ok") => (b.write = "ok" /\ b.chmod = "ok")}

\* keys.save()
CallKeysSave ==
    /\ calls < MaxCalls
    /\ calls' = calls + 1
    /\ \E fsp \in FsPairs :
        LET r == KeysSave(mem, disk, now, fsp[1], fsp[2])
        IN  /\ disk' = r.disk
            /\ raised' = r.raised
            /\ errlog' = r.logged
            /\ trace' = trace \o Evs(r.events) \o <<Ev("Keys.save()", r.raised = "")>>
    /\ UNCHANGED <<KeysFrame, mem, fsdone>>

\* key.save() on one of the two keys
CallKeySave ==
    /\ calls < MaxCalls
    /\ calls' = calls + 1
    /\ \E k \in KeyTypes, fs \in FsOutcomes :
        LET r == KeySave(mem, disk, k, now, fs)
        IN  /\ disk' = r.disk
            /\ raised' = r.raised
            /\ errlog' = r.logged
            /\ trace' = trace \o Evs(r.events) \o <<Ev(k \o ".save()", r.raised = "")>>
    /\ UNCHANGED <<KeysFrame, mem, fsdone>>

\* keys.delete()
CallKeysDelete ==
    /\ calls < MaxCalls
    /\ calls' = calls + 1
    /\ disk' = KeysDelete(disk)
    /\ raised' = ""
    /\ trace' = trace \o Evs(<<"unlink private", "unlink public">>)
                      \o <<Ev("Keys.delete()", TRUE)>>
    /\ UNCHANGED <<KeysFrame, mem, fsdone, errlog>>

\* keys.exist(); the entry of the history holds what the call returned
CallKeysExist ==
    /\ calls < MaxCalls
    /\ calls' = calls + 1
    /\ mem' = KeysExistMem(mem, disk)
    /\ raised' = ""
    /\ trace' = Append(trace, Ev("Keys.exist()", KeysExist(disk)))
    /\ UNCHANGED <<KeysFrame, disk, fsdone, errlog>>

NextKeys == SetContent \/ CallKeysSave \/ CallKeySave \/ CallKeysDelete \/ CallKeysExist

KeysSpec == InitKeys /\ [][NextKeys]_vars

-----------------------------------------------------------------------------
(* The validator on its own: a helper holding any credential mapping, the   *)
(* validator called on it.                                                  *)

\* n times the character c
Rep(c, n) == [i \in 1..n |-> c]

Usernames ==
    { <<>>, <<"a">>, <<"a", "b">>, <<"a", "_", "-", "9">>, <<"A", "b">>, <<"a", " ", "b">>,
      <<"a", "b", "\n">>, <<"a", "b", " ">>, <<"\n", "a", "b">>,
      Rep("a", USER_MAX), Rep("a", USER_MAX + 1), Rep("a", USER_MAX) \o <<"\n">> }

Passwords == { <<>>, <<"p">>, <<" ">>, <<"p", "\n">> }

Totps ==
    { <<>>, Rep("1", TOTP_LEN - 1), Rep("1", TOTP_LEN), Rep("1", TOTP_LEN + 1),
      Rep("1", TOTP_LEN - 1) \o <<"a">>, Rep("1", TOTP_LEN - 1) \o <<"\n">>,
      Rep("1", TOTP_LEN) \o <<"\n">>, <<" ">> \o Rep("1", TOTP_LEN),
      Rep("1", TOTP_LEN - 1) \o <<" ">> }

\* the mappings with the keys ks, any value for each
CredMapsOver(ks) ==
    {[f \in ks |-> IF f = "username" THEN u ELSE IF f = "password" THEN p ELSE t] :
        u \in Usernames, p \in Passwords, t \in Totps}

CredMaps == UNION {CredMapsOver(ks) : ks \in SUBSET {Fields[i] : i \in 1..Len(Fields)}}

InitValid ==
    /\ ProcessFresh
    /\ unlocked = TRUE
    /\ credentials \in CredMaps
    /\ returned = {}
    /\ cmd = "validate"
    /\ pc = "validate"
    /\ dry_run = FALSE
    /\ force = FALSE
    /\ backend \in {"bw", "op"}
    /\ item_name = "item"
    /\ env = Env(Unset, Unset, Unset)
    /\ platform = "linux"
    /\ agent = <<>>
    /\ disk = [k \in KeyTypes |-> NoFile]
    /\ disk0 = disk
    /\ agent0 = agent
    /\ loads = 0

ValidFrame == <<cmd, dry_run, force, backend, item_name, platform, env, now, disk, mem,
                unlocked, credentials, returned, private_key, public_key, disk0, response,
                fsdone, vault_out, runs, agent, agent0, loads, pc, exit_code, errlog, ran>>

\* vault.are_credentials_valid(), package layout
CallValidate ==
    /\ calls < MaxCalls
    /\ calls' = calls + 1
    /\ raised' = ""
    /\ trace' = Append(trace, Ev("are_credentials_valid()", are_credentials_valid(credentials)))
    /\ UNCHANGED ValidFrame

\* vault.are_credentials_valid(), flat layout
CallValidateFlat ==
    /\ calls < MaxCalls
    /\ calls' = calls + 1
    /\ LET v == are_credentials_valid_flat(credentials)
       IN  /\ raised' = v.raised
           /\ trace' = Append(trace, Ev("are_credentials_valid() flat", v.value))
    /\ UNCHANGED ValidFrame

NextValid == CallValidate \/ CallValidateFlat

ValidSpec == InitValid /\ [][NextValid]_vars

-----------------------------------------------------------------------------
(* The command runner on its own: any program, any combination of the       *)
(* capture, check and text options.                                         *)

\* exit statuses and outputs of the spawned program
RunProcs ==
    {Proc(FALSE, 127, <<>>)} \cup
    {Proc(TRUE, rc, out) : rc \in {0, 1, 2, 255}, out \in {<<>>, <<"o", "\n">>}}

InitRun ==
    /\ HelperFresh
    /\ ProcessFresh
    /\ cmd = "run"
    /\ pc = "run"
    /\ dry_run = FALSE
    /\ force = FALSE
    /\ backend = "op"
    /\ item_name = ""
    /\ env = Env(Unset, Unset, Unset)
    /\ platform \in {"linux", "darwin"}
    /\ agent = <<>>
    /\ disk = [k \in KeyTypes |-> NoFile]
    /\ disk0 = disk
    /\ agent0 = agent
    /\ loads = 0

RunFrame == <<cmd, dry_run, force, backend, item_name, platform, env, now, disk, mem,
              unlocked, credentials, returned, private_key, public_key, disk0, response,
              fsdone, vault_out, runs, agent, agent0, loads, pc, errlog>>

\* run_command(cmd, capture=..., check=..., text=...)
CallRunCommand ==
    /\ calls < MaxCalls
    /\ calls' = calls + 1
    /\ \E proc \in RunProcs, capture \in BOOLEAN, check \in BOOLEAN, text \in BOOLEAN :
        LET r == run_command(proc, capture, check, text)
        IN  /\ ran' = {[proc |-> proc, capture |-> capture, check |-> check, text |-> text,
                        result |-> r]}
            /\ raised' = IF r.kind = "return" THEN "" ELSE r.kind
            /\ exit_code' = IF r.kind = "return" THEN 0 ELSE r.code
            /\ trace' = Append(trace, Ev("run_command", r.kind = "return"))
    /\ UNCHANGED RunFrame

RunSpec == InitRun /\ [][CallRunCommand]_vars

-----------------------------------------------------------------------------
(* Properties *)

Last(t) == t[Len(t)]

\* the step is a call of the named helper method
Called(name) == Len(trace') > Len(trace) /\ Last(trace').ev = name

\* indices of the history entries with this name
At(name) == {i \in 1..Len(trace) : trace[i].ev = name}

\* C1: fetch_credentials() called while the helper is locked, or with an empty
\* item name, fails without running a vault command and without returning or
\* storing a credential field; every vault `get` command was issued while the
\* helper was unlocked and the item name non-empty.
C1_FetchNeedsUnlockAndItem ==
    /\ [](\A i \in At("vault get") : trace[i].unlocked /\ trace[i].item # "")
    /\ [][(Called("fetch_credentials()") /\ (~unlocked \/ item_name = ""))
            => /\ ~Last(trace').ok
               /\ raised' # ""
               /\ Len(trace') = Len(trace) + 1
               /\ credentials' = credentials
               /\ returned' = {}]_vars

\* a locked fetch_credentials() failed, and after an unlock a vault command ran
C1_Witness ==
    /\ \E i \in At("fetch_credentials()") : ~trace[i].unlocked /\ ~trace[i].ok
    /\ At("vault get") # {}

\* C2: the unlocked flag never goes back to false, and unlock() on an unlocked
\* helper reads no environment variable and runs no sign-in command.
C2_UnlockedMonotonic ==
    [][/\ unlocked => unlocked'
       /\ (Called("unlock()") /\ unlocked) => Len(trace') = Len(trace) + 1]_vars

\* unlock() was called on an unlocked helper whose token has left the environment
C2_Witness ==
    /\ unlocked
    /\ ~Truthy(env, backend_token(backend))
    /\ trace # <<>>
    /\ Last(trace).ev = "unlock()"
    /\ Last(trace).unlocked

\* a non-empty string (Python truthiness of Optional[str])
NonEmpty(x) == x # NoValue /\ x # ""

\* no key file has been created or rewritten: each is as at the start, or gone
NothingWritten ==
    /\ At("write private") \cup At("write public") = {}
    /\ \A k \in KeyTypes : disk[k] = disk0[k] \/ disk[k] = NoFile

\* C3: fetch on an existing key file without --force ends with a non-zero
\* exit code, both key files as they were, no vault command run and no signing
\* request issued.
C3_ExistingPairNeedsForce ==
    (cmd = "fetch" /\ ~force /\ (disk0["private"].present \/ disk0["public"].present))
    => /\ pc \in {"fetch:check", "exit"}
       /\ pc = "exit" => exit_code # 0
       /\ disk = disk0
       /\ trace = <<>>

\* fetch has ended on a lone public key file, without --force
C3_Witness ==
    /\ cmd = "fetch" /\ pc = "exit" /\ ~force
    /\ ~disk0["private"].present /\ disk0["public"].present
    /\ exit_code # 0

\* C4: a signing request is preceded by a completed unlock(), a completed
\* fetch_credentials() and a validation that returned true, in that order; a
\* validation that returned false ends fetch with a non-zero exit code, no
\* signing request and no key file written.
C4_SignAfterValidation ==
    /\ \A i \in At("POST") :
          \E a \in At("unlock()"), b \in At("fetch_credentials()"),
             c \in At("are_credentials_valid()") :
                a < b /\ b < c /\ c < i /\ trace[a].ok /\ trace[b].ok /\ trace[c].ok
    /\ \A c \in At("are_credentials_valid()") :
          ~trace[c].ok => /\ pc = "exit"
                          /\ exit_code # 0
                          /\ At("POST") = {}
                          /\ NothingWritten

\* fetch has ended on credentials that failed the validation
C4_Witness ==
    /\ pc = "exit"
    /\ \E c \in At("are_credentials_valid()") : ~trace[c].ok

\* C5: a key file is written only when the signing call returned a non-empty
\* private and a non-empty public key; otherwise fetch ends with a non-zero exit
\* code and neither file written.
C5_NoWriteWithoutBothKeys ==
    /\ (At("write private") \cup At("write public") # {})
          => NonEmpty(private_key) /\ NonEmpty(public_key)
    /\ (At("POST") # {} /\ ~(NonEmpty(private_key) /\ NonEmpty(public_key)))
          => /\ pc = "exit"
             /\ exit_code # 0
             /\ NothingWritten

\* the signing call returned a private key and an empty public key
C5_Witness ==
    /\ pc = "exit"
    /\ At("POST") # {}
    /\ private_key = "PRI" /\ public_key = ""

AllWritesOk ==
    /\ Len(fsdone) = 2
    /\ \A i \in 1..2 : fsdone[i].write = "ok" /\ fsdone[i].chmod = "ok"

GoodReply ==
    /\ response.sent = "ok"
    /\ response.status >= 200 /\ response.status < 300
    /\ response.body.json
    /\ NonEmpty(response.body.public) /\ NonEmpty(response.body.private)

\* C6: after a 2xx reply with non-empty `public` and `private`, and with the
\* writes succeeding, fetch ends successfully with the private key file holding
\* the `private` field at mode 0600 and the public key file holding the `public`
\* field at mode 0644.
C6_SuccessWritesBothKeys ==
    (cmd = "fetch" /\ GoodReply)
    => /\ pc \in {"fetch:save", "exit"}
       /\ (pc = "exit" /\ AllWritesOk)
          => /\ exit_code = 0 /\ raised = ""
             /\ disk["private"].present /\ disk["public"].present
             /\ disk["private"].content = response.body.private
             /\ disk["private"].mode = "0600"
             /\ disk["public"].content = response.body.public
             /\ disk["public"].mode = "0644"

\* fetch --force has replaced an existing pair
C6_Witness ==
    /\ cmd = "fetch" /\ pc = "exit" /\ exit_code = 0 /\ ~dry_run
    /\ force /\ disk0["private"].present
    /\ GoodReply /\ AllWritesOk
    /\ disk["private"].content = "PRI"

\* an error body: not JSON, or JSON without the two key fields
ErrorReply ==
    /\ response.sent = "ok"
    /\ ~(response.status >= 200 /\ response.status < 300)
    /\ ~response.body.json \/ (response.body.public = NoValue /\ response.body.private = NoValue)

\* C7: after any non-2xx reply with an error body fetch ends with a non-zero
\* exit code and no key file written, and a payload.message in the body is
\* what is reported as the reason.
C7_NonSuccessReplyFails ==
    (cmd = "fetch" /\ ErrorReply)
    => /\ pc = "exit"
       /\ exit_code # 0
       /\ NothingWritten
       /\ (response.body.json /\ response.body.payload /\ response.body.message # NoValue)
          => \E i \in 1..Len(errlog) : errlog[i].message = response.body.message

\* C8: one invocation of fetch issues at most one signing request and fetches
\* the credentials at most once; a failed request is the last thing it does.
C8_SingleSigningRequest ==
    /\ Cardinality(At("POST")) <= 1
    /\ Cardinality(At("fetch_credentials()")) <= 1
    /\ (At("POST") # {} /\ ~(NonEmpty(private_key) /\ NonEmpty(public_key)))
          => /\ pc = "exit"
             /\ Last(trace).ev = "POST"

\* fetch has ended on a signing request that raised
C8_Witness ==
    /\ pc = "exit"
    /\ \E i \in At("POST") : ~trace[i].ok

\* C9: add without any key file ends with a non-zero exit code at the first
\* check: no fingerprint computed, no identity listing, no agent-add.
C9_AddWithoutKeyPair ==
    (cmd = "add" /\ ~disk0["private"].present /\ ~disk0["public"].present)
    => /\ pc \in {"add:check", "exit"}
       /\ pc = "exit" => exit_code # 0
       /\ trace = <<>>
       /\ mem["private"].fingerprint = <<>>

\* add has ended with no key file on disk
C9_Witness ==
    /\ cmd = "add" /\ pc = "exit" /\ exit_code # 0
    /\ ~disk0["private"].present /\ ~disk0["public"].present

\* C10: add on a private key of age delta >= 24h (24h included) ends with a
\* non-zero exit code and no agent-add; the agent checks are reached only when
\* delta < 24h.
C10_StaleKeyNotAdded ==
    (cmd = "add" /\ disk0["private"].present)
    => LET delta == now - disk0["private"].ctime
       IN  /\ delta >= 24 => /\ pc \in {"add:check", "add:age", "exit"}
                             /\ pc = "exit" => exit_code # 0
                             /\ At("ssh-add") = {}
           /\ pc \in {"add:dry", "add:agent", "add:inagent", "add:load"} => delta < 24

\* add has ended on a private key that is exactly 24 hours old
C10_Witness ==
    /\ cmd = "add" /\ pc = "exit" /\ exit_code # 0
    /\ disk0["private"].present
    /\ now - disk0["private"].ctime = 24

\* add runs for real on a private key younger than 24 hours
FreshAdd ==
    /\ cmd = "add" /\ ~dry_run
    /\ disk0["private"].present
    /\ now - disk0["private"].ctime < 24

\* C11: add on a fresh key pair, with the agent unavailable (win32, or
\* SSH_AUTH_SOCK unset), ends with a non-zero exit code without listing the
\* agent's identities and without the agent-add command.
C11_AgentUnavailable ==
    (FreshAdd /\ (platform = "win32" \/ env["SSH_AUTH_SOCK"] = Unset))
    => /\ pc \in {"add:check", "add:age", "add:dry", "add:agent", "exit"}
       /\ pc = "exit" => exit_code # 0
       /\ At("ssh-add -l") = {}
       /\ At("ssh-add") = {}

\* add has ended on win32 although an agent socket is exported
C11_Witness ==
    /\ FreshAdd /\ pc = "exit" /\ exit_code # 0
    /\ platform = "win32"
    /\ env["SSH_AUTH_SOCK"] = "sock"

\* the identities were listed and the listing came back
Listed ==
    /\ cmd = "add"
    /\ At("ssh-add -l") # {}
    /\ ~(pc = "exit" /\ raised = "FileNotFoundError" /\ At("ssh-add") = {})

\* C12: in add, once the fingerprint is computed and the identities listed,
\* the agent-add command is invoked exactly when the fingerprint is not a
\* substring of the listing: a listed fingerprint ends the command with exit
\* code 0 and no agent-add, an unlisted one is followed by exactly one
\* agent-add; and add run again against an agent that kept the key does not
\* load it a second time.
C12_AddOnlyWhenNotListed ==
    /\ Listed =>
          IF IsSubstring(mem["private"].fingerprint, agent0)
          THEN pc = "exit" /\ exit_code = 0 /\ At("ssh-add") = {}
          ELSE \/ pc = "add:load" /\ At("ssh-add") = {}
               \/ pc = "exit" /\ Cardinality(At("ssh-add")) = 1
    /\ At("ssh-add") # {} => Listed
    /\ cmd = "add" => loads <= 1

\* the second add in a row found the key the first one had loaded
C12_Witness ==
    /\ cmd = "add" /\ runs = 2 /\ loads = 1
    /\ Listed /\ pc = "exit" /\ exit_code = 0
    /\ At("ssh-add") = {}
    /\ IsSubstring(mem["private"].fingerprint, agent0)

\* the history ends with these two calls, in this order
LastTwo(first, second) ==
    /\ Len(trace) >= 2
    /\ trace[Len(trace) - 1].ev = first
    /\ trace[Len(trace)].ev = second

\* C13: after any sequence of Keys.save() and Keys.delete(), Keys.exist()
\* returns true exactly when at least one of the two key files is on disk:
\* false right after delete(), true right after a save() that succeeded,
\* true when only one of the two files is there; delete() succeeds whether
\* or not the files were there.
C13_ExistIffAnyFile ==
    trace # <<>> =>
      /\ Last(trace).ev = "Keys.exist()" =>
            (Last(trace).ok <=> (disk["private"].present \/ disk["public"].present))
      /\ Last(trace).ev = "Keys.delete()" =>
            /\ Last(trace).ok /\ raised = ""
            /\ ~disk["private"].present /\ ~disk["public"].present
      /\ LastTwo("Keys.delete()", "Keys.exist()") => ~Last(trace).ok
      /\ (Last(trace).ev = "Keys.save()" /\ Last(trace).ok) =>
            disk["private"].present /\ disk["public"].present
      /\ (LastTwo("Keys.save()", "Keys.exist()") /\ trace[Len(trace) - 1].ok) =>
            Last(trace).ok

\* exist() has answered true with the certificate alone on disk
C13_Witness ==
    /\ trace # <<>>
    /\ Last(trace).ev = "Keys.exist()" /\ Last(trace).ok
    /\ ~disk["private"].present /\ disk["public"].present

\* C14: Key.save() on a key whose content is empty always fails and leaves
\* the disk as it was: no file is created, truncated or modified.
C14_EmptyContentNotSaved ==
    [][\A k \in KeyTypes :
          (Called(k \o ".save()") /\ mem[k].content = "")
          => /\ ~Last(trace').ok
             /\ raised' # ""
             /\ disk' = disk
             /\ Len(trace') = Len(trace) + 1]_vars

\* save() of a private key without content has failed, next to an older file
C14_Witness ==
    /\ trace # <<>>
    /\ Last(trace).ev = "private.save()" /\ ~Last(trace).ok
    /\ mem["private"].content = ""
    /\ raised = "TypeError"
    /\ disk["private"].present /\ disk["private"].content = "OLDPRI"

\* C15: when setting the permission bits fails in Key.save(), after the
\* content was written, the save does not report success: the command ends
\* with a non-zero exit code and the written file stays on disk; in
\* Keys.save(), a permission failure on the private key means the public key
\* is not written.
C15_ChmodFailureFails ==
    (cmd = "fetch" /\ pc = "exit" /\ fsdone # <<>>) =>
      /\ (fsdone[1].write = "ok" /\ fsdone[1].chmod # "ok") =>
            /\ exit_code # 0
            /\ disk["private"].present /\ disk["private"].content = private_key
            /\ At("write public") = {}
            /\ ~disk["public"].present
      /\ (fsdone[1].write = "ok" /\ fsdone[1].chmod = "ok"
            /\ fsdone[2].write = "ok" /\ fsdone[2].chmod # "ok") =>
            /\ exit_code # 0
            /\ disk["private"].present /\ disk["private"].content = private_key
            /\ disk["public"].present /\ disk["public"].content = public_key

\* fetch has ended after chmod was refused on the private key it had written
C15_Witness ==
    /\ cmd = "fetch" /\ pc = "exit" /\ fsdone # <<>>
    /\ fsdone[1].write = "ok" /\ fsdone[1].chmod = "PermissionError"
    /\ exit_code = 1
    /\ disk["private"].present /\ disk["private"].mode = CREATE_MODE

\* the three fields are there and meet the stated rule: username of 2 to 15
\* characters from [a-z0-9_-], password not empty, totp of six digits
MeetsRule(c) ==
    /\ DOMAIN c = {"username", "password", "totp"}
    /\ Len(c["username"]) >= 2 /\ Len(c["username"]) <= 15
    /\ \A i \in 1..Len(c["username"]) : c["username"][i] \in LOWER \cup DIGIT \cup {"_", "-"}
    /\ c["password"] # <<>>
    /\ Len(c["totp"]) = 6
    /\ \A i \in 1..Len(c["totp"]) : c["totp"][i] \in DIGIT

\* C16: are_credentials_valid() returns true if and only if the username is
\* 2 to 15 characters from [a-z0-9_-], the password is not empty and the
\* totp is exactly six digits, whatever strings the three fields hold
\* (whitespace and newlines included).
C16_ValidIffRule ==
    (trace # <<>> /\ Last(trace).ev = "are_credentials_valid()"
        /\ DOMAIN credentials = {"username", "password", "totp"})
    => (Last(trace).ok <=> MeetsRule(credentials))

\* C17: on a mapping that lacks any of the three keys (the empty mapping
\* included) are_credentials_valid() returns false and does not raise, in
\* the package layout and in the flat layout.
C17_MissingFieldIsInvalid ==
    (trace # <<>>
        /\ Last(trace).ev \in {"are_credentials_valid()", "are_credentials_valid() flat"}
        /\ DOMAIN credentials # {"username", "password", "totp"})
    => (~Last(trace).ok /\ raised = "")

\* `op item get` printed a JSON array that is short of an element or of the
\* field read from one
MalformedOP ==
    /\ backend = "op"
    /\ vault_out # <<>>
    /\ vault_out[1].found /\ vault_out[1].rc = 0
    /\ vault_out[1].stdout.json /\ vault_out[1].stdout.array
    /\ LET items == vault_out[1].stdout.items
       IN  \/ Len(items) < 3
           \/ "value" \notin DOMAIN items[1]
           \/ "value" \notin DOMAIN items[2]
           \/ "totp" \notin DOMAIN items[3]

\* C18: when the 1Password program prints a JSON array with fewer than three
\* elements, or with an element that lacks its value/totp field,
\* fetch_credentials() fails and returns nothing; a mapping it returns always
\* has the three fields; in fetch the failure ends the command before the
\* validation and before any signing request.
C18_MalformedVaultReply ==
    /\ (cmd = "fetch" /\ MalformedOP) =>
          /\ returned = {}
          /\ ~Last(trace).ok /\ Last(trace).ev = "fetch_credentials()"
          /\ pc = "exit" /\ exit_code # 0
          /\ At("are_credentials_valid()") = {}
          /\ At("POST") = {}
    /\ (cmd = "fetch" /\ backend = "op") =>
          \A c \in returned : DOMAIN c = {"username", "password", "totp"}

\* fetch has ended on a reply of two elements
C18_Witness ==
    /\ cmd = "fetch" /\ MalformedOP
    /\ Len(vault_out[1].stdout.items) = 2
    /\ pc = "exit" /\ raised = "CredentialsHelperError"

C20_PairSavedAsUnit ==
    [][(Called("Keys.save()")
          /\ (mem["private"].content = "" \/ mem["public"].content = ""))
       => (~Last(trace').ok /\ disk' = disk)]_vars

\* C21: add never refreshes or alters the key pair: in every run, whatever
\* the outcome, the two key files keep their presence, content and
\* permission bits, no vault command is run and no signing request is sent.
C21_AddLeavesKeysAlone ==
    cmd = "add" =>
      /\ \A k \in {"private", "public"} :
            /\ disk[k].present = disk0[k].present
            /\ disk[k].content = disk0[k].content
            /\ disk[k].mode = disk0[k].mode
      /\ \A i \in 1..Len(trace) :
            trace[i].ev \notin {"getenv", "op signin", "vault get", "unlock()",
                                "fetch_credentials()", "are_credentials_valid()", "POST",
                                "unlink private", "unlink public", "write private",
                                "write public", "chmod private", "chmod public"}
      /\ response = NoResponse
      /\ vault_out = <<>>
      /\ ~unlocked

\* add has loaded the key into the agent
C21_Witness ==
    /\ cmd = "add" /\ pc = "exit" /\ exit_code = 0
    /\ loads = 1 /\ At("ssh-add") # {}
    /\ disk["private"].present /\ disk["private"].content = "OLDPRI"

\* C22: run_command with check=True: when the program exits with a non-zero
\* code the call does not return, for either value of capture and of text,
\* but ends the process with SystemExit carrying that exit code; with
\* check=False a non-zero exit is no failure and the call returns the
\* captured stdout (capture=True) or the exit code (capture=False).
C22_CheckedRunFails ==
    \A c \in ran :
      /\ (c.proc.found /\ c.check /\ c.proc.rc # 0) =>
            (c.result.kind = "SystemExit" /\ c.result.code = c.proc.rc)
      /\ (c.proc.found /\ ~c.check) =>
            /\ c.result.kind = "return"
            /\ c.capture => c.result.out = c.proc.stdout
            /\ ~c.capture => c.result.code = c.proc.rc

\* fetch --force, not a dry run, started on an existing key pair
ForcedFetch ==
    /\ cmd = "fetch" /\ force /\ ~dry_run
    /\ (disk0["private"].present \/ disk0["public"].present)

\* C23: fetch --force without --dry-run on an existing pair deletes both key
\* files before the vault is unlocked or a credential fetched; so whenever a
\* later step fails (vault locked, credential fetch, validation, signing
\* request, empty key material) the command ends with a non-zero exit code
\* and no key file on disk: the previous pair is gone.
C23_ForceDeletesFirst ==
    ForcedFetch =>
      /\ pc # "fetch:check" =>
            /\ At("unlink private") = {1}
            /\ At("unlink public") = {2}
      /\ pc \in {"fetch:unlock", "fetch:creds", "fetch:validate", "fetch:sign", "fetch:save"} =>
            (~disk["private"].present /\ ~disk["public"].present)
      /\ (pc = "exit" /\ fsdone = <<>>) =>
            /\ exit_code # 0
            /\ ~disk["private"].present /\ ~disk["public"].present

\* the signing request has failed after the old pair was deleted
C23_Witness ==
    /\ ForcedFetch /\ pc = "exit" /\ exit_code # 0
    /\ disk0["private"].present /\ disk0["public"].present
    /\ At("POST") # {} /\ fsdone = <<>>
    /\ ~disk["private"].present /\ ~disk["public"].present

\* add started with the certificate on disk and no private key
PublicOnly ==
    /\ cmd = "add"
    /\ ~disk0["private"].present /\ disk0["public"].present

\* C24: in add, with the public key file present and the private key file
\* absent, Keys.exist() is true, the private key's creation time is the
\* sentinel 0, and the command ends with a non-zero exit code at the
\* staleness check; the agent availability check, the fingerprint
\* computation and the agent-add command are never reached.
C24_PublicOnlyIsStale ==
    PublicOnly =>
      /\ pc \in {"add:check", "add:age", "exit"}
      /\ pc = "exit" =>
            /\ exit_code # 0
            /\ errlog = <<>>
            /\ mem["private"].c_time = 0
      /\ At("ssh-keygen -lf") = {}
      /\ At("ssh-add -l") = {}
      /\ At("ssh-add") = {}

\* add has ended at the staleness check of a private key that is not there
C24_Witness ==
    /\ PublicOnly /\ ~dry_run
    /\ pc = "exit" /\ exit_code = 1
    /\ errlog = <<>>
    /\ mem["private"].c_time = 0 /\ mem["public"].content = "OLDPUB"

====
